---------------------------- MODULE Spec2Model ----------------------------
(***************************************************************************)
(* A model of the POSIX serial port of go-serial (src/port.go).            *)
(*                                                                         *)
(* The port object (posixPort) is the record `port`; the kernel side of    *)
(* the device is `termios` (its line configuration) and `openFds` (the     *)
(* handles the kernel holds open).  Read and Write are retry loops over a  *)
(* non-blocking descriptor: each iteration is one step of the model, its   *)
(* device response and the wall clock are chosen by the environment.       *)
(***************************************************************************)
EXTENDS Integers, FiniteSets, Sequences, TLC

(***************************************************************************)
(* Bounds of the model.                                                    *)
(***************************************************************************)
\* longest buffer handed to Read / Write
MaxLen == 3
\* last instant of the wall clock; deadlines are instants 1..MaxTime
MaxTime == 3
\* most device attempts followed within one Read / Write call
MaxAttempts == 3

(***************************************************************************)
(* Values of the program.                                                  *)
(***************************************************************************)
\* the handle unix.Open returned to NewPort
DeviceFd == 3
\* port.fd after a successful Close
ClosedFd == -1
\* time.Time{}: the zero time, "no deadline"
ZeroTime == 0


(***************************************************************************)
(* The line configuration enumerations (type BaudRate byte, iota).         *)
(***************************************************************************)
BaudRate0 == 0
BaudRate50 == 1
BaudRate75 == 2
BaudRate110 == 3
BaudRate134 == 4
BaudRate150 == 5
BaudRate200 == 6
BaudRate300 == 7
BaudRate600 == 8
BaudRate1200 == 9
BaudRate1800 == 10
BaudRate2400 == 11
BaudRate4800 == 12
BaudRate7200 == 13
BaudRate9600 == 14
BaudRate14400 == 15
BaudRate19200 == 16
BaudRate28800 == 17
BaudRate38400 == 18
BaudRate57600 == 19
BaudRate100000 == 20
BaudRate115200 == 21
BaudRate230400 == 22

ParityNone == 0
ParityEven == 1
ParityOdd == 2

DataBits5 == 0
DataBits6 == 1
DataBits7 == 2
DataBits8 == 3

StopBits1 == 0
StopBits2 == 1

\* the declared values of each enumeration
DeclaredBaudRates == BaudRate0 .. BaudRate230400
DeclaredParities == ParityNone .. ParityOdd
DeclaredDataBits == DataBits5 .. DataBits8
DeclaredStopBits == StopBits1 .. StopBits2

(***************************************************************************)
(* The control flags of the line configuration (termios.Cflag), as the set *)
(* of the positions of its bits; x &^= m is x \ m and x |= m is x \cup m.  *)
(* The masks are those of golang.org/x/sys/unix on the platform that has   *)
(* TIOCGETA / TIOCSETA (BSD, darwin).                                      *)
(***************************************************************************)
IGNBRK == {0}
CSIZE == {8, 9}
CS5 == {}
CS6 == {8}
CS7 == {9}
CS8 == {8, 9}
IXON == {9}
IXOFF == {10}
IXANY == {11}
CSTOPB == {10}
CREAD == {11}
PARENB == {12}
PARODD == {13}
CLOCAL == {15}

\* the result of a switch that reaches its default branch
NoCode == -1

\* at least one byte of a non-empty remainder
Min1(rem) == IF rem > 0 THEN 1 ELSE 0

\* SetBaudRate's switch: the speed code unix.B<rate> of a baud rate
SpeedCode(baudRate) ==
    CASE baudRate = BaudRate0 -> 0
      [] baudRate = BaudRate50 -> 50
      [] baudRate = BaudRate75 -> 75
      [] baudRate = BaudRate110 -> 110
      [] baudRate = BaudRate150 -> 150
      [] baudRate = BaudRate200 -> 200
      [] baudRate = BaudRate300 -> 300
      [] baudRate = BaudRate600 -> 600
      [] baudRate = BaudRate1200 -> 1200
      [] baudRate = BaudRate1800 -> 1800
      [] baudRate = BaudRate2400 -> 2400
      [] baudRate = BaudRate4800 -> 4800
      [] baudRate = BaudRate7200 -> 7200
      [] baudRate = BaudRate9600 -> 9600
      [] baudRate = BaudRate14400 -> 14400
      [] baudRate = BaudRate19200 -> 19200
      [] baudRate = BaudRate28800 -> 28800
      [] baudRate = BaudRate38400 -> 38400
      [] baudRate = BaudRate57600 -> 57600
      [] baudRate = BaudRate115200 -> 115200
      [] baudRate = BaudRate230400 -> 230400
      [] OTHER -> NoCode

\* a switch over an enumeration: the bits of its case, or its default branch
Case(bits) == [ok |-> TRUE, bits |-> bits]
Default == [ok |-> FALSE, bits |-> {}]

\* SetParity's switch: the bits set after PARENB and PARODD were cleared
ParityBits(parity) ==
    CASE parity = ParityNone -> Case({})
      [] parity = ParityOdd -> Case(PARODD)
      [] parity = ParityEven -> Case(PARENB)
      [] OTHER -> Default

\* SetDataBits' switch: the bits set after CSIZE was cleared
DataBitsBits(dataBits) ==
    CASE dataBits = DataBits5 -> Case(CS5)
      [] dataBits = DataBits6 -> Case(CS6)
      [] dataBits = DataBits7 -> Case(CS7)
      [] dataBits = DataBits8 -> Case(CS8)
      [] OTHER -> Default

\* SetStopBits' switch: the bits set after CSTOPB was cleared
StopBitsBits(stopBits) ==
    CASE stopBits = StopBits1 -> Case({})
      [] stopBits = StopBits2 -> Case(CSTOPB)
      [] OTHER -> Default

(***************************************************************************)
(* The control interface of the kernel.  A call on a handle the kernel     *)
(* does not hold open fails with EBADF; on an open handle it fails with    *)
(* EIO when the environment injects the fault, and then changes nothing.   *)
(***************************************************************************)
\* the faults the environment can inject into one setter call
Faults == {"none", "get", "set"}

IoctlGetTermios(fd, fds, fault) ==
    IF fd \notin fds THEN "EBADF"
    ELSE IF fault = "get" THEN "EIO"
    ELSE "nil"

IoctlSetTermios(fd, fds, fault) ==
    IF fd \notin fds THEN "EBADF"
    ELSE IF fault = "set" THEN "EIO"
    ELSE "nil"

\* what a setter hands back: the port, the kernel configuration, the error
\* and the control-interface calls it made
SetterResult(p, t, err, gets, sets) ==
    [port |-> p, termios |-> t, err |-> err, gets |-> gets, sets |-> sets]


(***************************************************************************)
(* The setters.  Each takes the port p, the kernel's line configuration t, *)
(* the open handles fds, the requested value and the injected fault.  The  *)
(* termios a setter edits is its own copy of what the kernel returned: the *)
(* kernel changes only when IoctlSetTermios succeeds.                      *)
(***************************************************************************)
\* SetBaudRate with the field assigned before the write is known to succeed
SetBaudRate_CommitBeforeWrite(p, t, fds, baudRate, fault) ==
    IF baudRate = p.baudRate THEN SetterResult(p, t, "nil", 0, 0)
    ELSE IF IoctlGetTermios(p.fd, fds, fault) # "nil"
    THEN SetterResult(p, t, IoctlGetTermios(p.fd, fds, fault), 1, 0)
    ELSE IF SpeedCode(baudRate) = NoCode
    THEN SetterResult(p, t, "invalid baud rate", 1, 0)
    ELSE IF IoctlSetTermios(p.fd, fds, fault) # "nil"
    THEN SetterResult([p EXCEPT !.baudRate = baudRate], t,
                      IoctlSetTermios(p.fd, fds, fault), 1, 1)
    ELSE SetterResult([p EXCEPT !.baudRate = baudRate],
                      [t EXCEPT !.Ispeed = SpeedCode(baudRate),
                                !.Ospeed = SpeedCode(baudRate)],
                      "nil", 1, 1)

SetBaudRate(p, t, fds, baudRate, fault) ==
    IF baudRate = p.baudRate THEN SetterResult(p, t, "nil", 0, 0)
    ELSE IF IoctlGetTermios(p.fd, fds, fault) # "nil"
    THEN SetterResult(p, t, IoctlGetTermios(p.fd, fds, fault), 1, 0)
    ELSE IF SpeedCode(baudRate) = NoCode
    THEN SetterResult(p, t, "invalid baud rate", 1, 0)
    ELSE IF IoctlSetTermios(p.fd, fds, fault) # "nil"
    THEN SetterResult(p, t, IoctlSetTermios(p.fd, fds, fault), 1, 1)
    ELSE SetterResult([p EXCEPT !.baudRate = baudRate],
                      [t EXCEPT !.Ispeed = SpeedCode(baudRate),
                                !.Ospeed = SpeedCode(baudRate)],
                      "nil", 1, 1)

\* SetParity with the assignment to the field left out
SetParity_NoStore(p, t, fds, parity, fault) ==
    IF parity = p.parity THEN SetterResult(p, t, "nil", 0, 0)
    ELSE IF IoctlGetTermios(p.fd, fds, fault) # "nil"
    THEN SetterResult(p, t, IoctlGetTermios(p.fd, fds, fault), 1, 0)
    ELSE IF ~ParityBits(parity).ok
    THEN SetterResult(p, t, "invalid parity", 1, 0)
    ELSE IF IoctlSetTermios(p.fd, fds, fault) # "nil"
    THEN SetterResult(p, t, IoctlSetTermios(p.fd, fds, fault), 1, 1)
    ELSE SetterResult(p,
                      [t EXCEPT !.Cflag = (@ \ (PARENB \cup PARODD))
                                            \cup ParityBits(parity).bits],
                      "nil", 1, 1)


SetParity(p, t, fds, parity, fault) ==
    IF parity = p.parity THEN SetterResult(p, t, "nil", 0, 0)
    ELSE IF IoctlGetTermios(p.fd, fds, fault) # "nil"
    THEN SetterResult(p, t, IoctlGetTermios(p.fd, fds, fault), 1, 0)
    ELSE IF ~ParityBits(parity).ok
    THEN SetterResult(p, t, "invalid parity", 1, 0)
    ELSE IF IoctlSetTermios(p.fd, fds, fault) # "nil"
    THEN SetterResult(p, t, IoctlSetTermios(p.fd, fds, fault), 1, 1)
    ELSE SetterResult([p EXCEPT !.parity = parity],
                      [t EXCEPT !.Cflag = (@ \ (PARENB \cup PARODD))
                                            \cup ParityBits(parity).bits],
                      "nil", 1, 1)

\* SetDataBits without the early return for the value already stored
SetDataBits_NoEarlyReturn(p, t, fds, dataBits, fault) ==
    IF IoctlGetTermios(p.fd, fds, fault) # "nil"
    THEN SetterResult(p, t, IoctlGetTermios(p.fd, fds, fault), 1, 0)
    ELSE IF ~DataBitsBits(dataBits).ok
    THEN SetterResult(p, t, "invalid data bits", 1, 0)
    ELSE IF IoctlSetTermios(p.fd, fds, fault) # "nil"
    THEN SetterResult(p, t, IoctlSetTermios(p.fd, fds, fault), 1, 1)
    ELSE SetterResult([p EXCEPT !.dataBits = dataBits],
                      [t EXCEPT !.Cflag = (@ \ CSIZE) \cup DataBitsBits(dataBits).bits],
                      "nil", 1, 1)


SetDataBits(p, t, fds, dataBits, fault) ==
    IF dataBits = p.dataBits THEN SetterResult(p, t, "nil", 0, 0)
    ELSE IF IoctlGetTermios(p.fd, fds, fault) # "nil"
    THEN SetterResult(p, t, IoctlGetTermios(p.fd, fds, fault), 1, 0)
    ELSE IF ~DataBitsBits(dataBits).ok
    THEN SetterResult(p, t, "invalid data bits", 1, 0)
    ELSE IF IoctlSetTermios(p.fd, fds, fault) # "nil"
    THEN SetterResult(p, t, IoctlSetTermios(p.fd, fds, fault), 1, 1)
    ELSE SetterResult([p EXCEPT !.dataBits = dataBits],
                      [t EXCEPT !.Cflag = (@ \ CSIZE) \cup DataBitsBits(dataBits).bits],
                      "nil", 1, 1)

\* SetStopBits without the early return for the value already stored
SetStopBits_NoEarlyReturn(p, t, fds, stopBits, fault) ==
    IF IoctlGetTermios(p.fd, fds, fault) # "nil"
    THEN SetterResult(p, t, IoctlGetTermios(p.fd, fds, fault), 1, 0)
    ELSE IF ~StopBitsBits(stopBits).ok
    THEN SetterResult(p, t, "invalid stop bits", 1, 0)
    ELSE IF IoctlSetTermios(p.fd, fds, fault) # "nil"
    THEN SetterResult(p, t, IoctlSetTermios(p.fd, fds, fault), 1, 1)
    ELSE SetterResult([p EXCEPT !.stopBits = stopBits],
                      [t EXCEPT !.Cflag = (@ \ CSTOPB) \cup StopBitsBits(stopBits).bits],
                      "nil", 1, 1)

\* SetStopBits with the control flags assigned instead of masked
SetStopBits_Overwrite(p, t, fds, stopBits, fault) ==
    IF stopBits = p.stopBits THEN SetterResult(p, t, "nil", 0, 0)
    ELSE IF IoctlGetTermios(p.fd, fds, fault) # "nil"
    THEN SetterResult(p, t, IoctlGetTermios(p.fd, fds, fault), 1, 0)
    ELSE IF ~StopBitsBits(stopBits).ok
    THEN SetterResult(p, t, "invalid stop bits", 1, 0)
    ELSE IF IoctlSetTermios(p.fd, fds, fault) # "nil"
    THEN SetterResult(p, t, IoctlSetTermios(p.fd, fds, fault), 1, 1)
    ELSE SetterResult([p EXCEPT !.stopBits = stopBits],
                      [t EXCEPT !.Cflag = StopBitsBits(stopBits).bits],
                      "nil", 1, 1)


SetStopBits(p, t, fds, stopBits, fault) ==
    IF stopBits = p.stopBits THEN SetterResult(p, t, "nil", 0, 0)
    ELSE IF IoctlGetTermios(p.fd, fds, fault) # "nil"
    THEN SetterResult(p, t, IoctlGetTermios(p.fd, fds, fault), 1, 0)
    ELSE IF ~StopBitsBits(stopBits).ok
    THEN SetterResult(p, t, "invalid stop bits", 1, 0)
    ELSE IF IoctlSetTermios(p.fd, fds, fault) # "nil"
    THEN SetterResult(p, t, IoctlSetTermios(p.fd, fds, fault), 1, 1)
    ELSE SetterResult([p EXCEPT !.stopBits = stopBits],
                      [t EXCEPT !.Cflag = (@ \ CSTOPB) \cup StopBitsBits(stopBits).bits],
                      "nil", 1, 1)

(***************************************************************************)
(* NewPort, on a device the kernel opens, grants exclusively and lets      *)
(* configure: the baseline is written, the port object is built with its   *)
(* default fields, and the four setters run in order.                      *)
(***************************************************************************)
\* the baseline NewPort writes over the configuration t it read
Baseline(t) ==
    [t EXCEPT !.Cflag = (((((((@ \ (PARENB \cup PARODD)) \ CSIZE) \cup CS8)
                              \ CSTOPB) \ IGNBRK)
                              \ (IXON \cup IXOFF \cup IXANY))
                              \cup (CLOCAL \cup CREAD)),
              !.Lflag = {},
              !.Oflag = {},
              !.Cc16 = 0,
              !.Cc17 = 0]

\* the port object NewPort builds after the baseline is written
NewPosixPort(path, fd) ==
    [path |-> path,
     baudRate |-> BaudRate9600,
     parity |-> ParityNone,
     dataBits |-> DataBits8,
     stopBits |-> StopBits1,
     fd |-> fd,
     readDeadline |-> ZeroTime,
     writeDeadline |-> ZeroTime]

\* NewPort(path, baudRate, parity, dataBits, stopBits) on a device whose
\* line configuration is t0, with no fault of the device: the result of the
\* last setter, or of the first one that fails
NewPort(path, t0, baudRate, parity, dataBits, stopBits) ==
    LET fds == {DeviceFd}
        r0 == SetterResult(NewPosixPort(path, DeviceFd), Baseline(t0), "nil", 0, 0)
        r1 == SetBaudRate(r0.port, r0.termios, fds, baudRate, "none")
        r2 == SetParity(r1.port, r1.termios, fds, parity, "none")
        r3 == SetDataBits(r2.port, r2.termios, fds, dataBits, "none")
        r4 == SetStopBits(r3.port, r3.termios, fds, stopBits, "none")
    IN  IF r1.err # "nil" THEN r1
        ELSE IF r2.err # "nil" THEN r2
        ELSE IF r3.err # "nil" THEN r3
        ELSE r4


(***************************************************************************)
(* The device under Read and Write.  unix.Read / unix.Write on a           *)
(* non-blocking handle return a byte count, or -1 and an error: EAGAIN     *)
(* (would block), EIO (a genuine device error), EBADF (no open handle).    *)
(***************************************************************************)
DevErr(err) == [k |-> -1, err |-> err]
DevOk(k) == [k |-> k, err |-> "nil"]

\* unix.Read(fd, p[n:]) with room for rem bytes
UnixRead(fd, fds, rem) ==
    IF fd \notin fds THEN {DevErr("EBADF")}
    ELSE {DevErr("EAGAIN"), DevErr("EIO")} \cup {DevOk(k) : k \in 0 .. rem}

\* unix.Write(fd, p[n:]) with rem bytes left to send
UnixWrite(fd, fds, rem) ==
    IF fd \notin fds THEN {DevErr("EBADF")}
    ELSE {DevErr("EAGAIN"), DevErr("EIO")} \cup {DevOk(k) : k \in Min1(rem) .. rem}

\* unix.Close(fd): the error, and the handles left open
UnixClose(fd, fds) ==
    IF fd \notin fds THEN {[err |-> "EBADF", fds |-> fds]}
    ELSE {[err |-> "nil", fds |-> fds \ {fd}],
          [err |-> "EIO", fds |-> fds \ {fd}],
          [err |-> "EINTR", fds |-> fds]}

\* time.Time.IsZero and time.Time.After
IsZero(t) == t = ZeroTime
After(t, u) == t > u

\* len(p) == 0 of Read, and the same with the test left out
ReadEmpty_Never(plen) == FALSE
ReadEmpty(plen) == plen = 0

WriteEmpty(plen) == plen = 0

\* n += read of Read, and the same written as an assignment
ReadAdvance_Assign(n, read) == read
ReadAdvance(n, read) == n + read

WriteAdvance(n, written) == n + written

\* err == syscall.EAGAIN of Read, and a test that lets every error pass
ReadWouldBlock_AnyError(err) == TRUE
ReadWouldBlock(err) == err = "EAGAIN"

WriteWouldBlock(err) == err = "EAGAIN"

\* the deadline Read's loop tests
ReadLoopDeadline(p) == p.writeDeadline

\* the deadline Write's loop tests
WriteLoopDeadline(p) == p.writeDeadline

\* time.Now().After(port.writeDeadline) of Write, and the same with Before
WriteExpired_Before(t, p) == t < WriteLoopDeadline(p)
WriteExpired(t, p) == After(t, WriteLoopDeadline(p))

\* what one iteration of a loop leaves: whether the call returns, n, err,
\* and whether the iteration slept
Iter(done, n, err, paused) == [done |-> done, n |-> n, err |-> err, paused |-> paused]

\* one iteration of Read's loop: n bytes are in p, the device answers r, the
\* clock reads t
ReadIter(p, plen, n, r, t) ==
    IF r.err # "nil" /\ ~ReadWouldBlock(r.err) THEN Iter(TRUE, n, r.err, FALSE)
    ELSE LET n1 == IF r.err # "nil" THEN n ELSE ReadAdvance(n, r.k) IN
        IF r.err = "nil" /\ n1 = plen THEN Iter(TRUE, n1, "nil", FALSE)
        ELSE IF IsZero(ReadLoopDeadline(p)) THEN Iter(TRUE, n1, r.err, FALSE)
        ELSE IF After(t, ReadLoopDeadline(p)) THEN Iter(TRUE, n1, "ETIMEDOUT", FALSE)
        ELSE Iter(FALSE, n1, r.err, r.err # "nil" \/ n1 = 0)

\* one iteration of Write's loop
WriteIter(p, plen, n, r, t) ==
    IF r.err # "nil" /\ ~WriteWouldBlock(r.err) THEN Iter(TRUE, n, r.err, FALSE)
    ELSE LET n1 == IF r.err # "nil" THEN n ELSE WriteAdvance(n, r.k) IN
        IF r.err = "nil" /\ n1 = plen THEN Iter(TRUE, n1, "nil", FALSE)
        ELSE IF IsZero(WriteLoopDeadline(p)) THEN Iter(TRUE, n1, r.err, r.err # "nil")
        ELSE IF WriteExpired(t, p) THEN Iter(TRUE, n1, "ETIMEDOUT", r.err # "nil")
        ELSE Iter(FALSE, n1, r.err, r.err # "nil")

\* Close that never marks the port closed
Close_KeepsHandle(p, out) == p


\* Close, given what unix.Close answered
Close(p, out) == IF out.err # "nil" THEN p ELSE [p EXCEPT !.fd = ClosedFd]

\* the deadline setters
SetReadDeadline(p, deadline) == [p EXCEPT !.readDeadline = deadline]
SetWriteDeadline(p, deadline) == [p EXCEPT !.writeDeadline = deadline]
\* SetDeadline that forgets the write deadline
SetDeadline_ReadOnly(p, deadline) == SetReadDeadline(p, deadline)

SetDeadline(p, deadline) == SetWriteDeadline(SetReadDeadline(p, deadline), deadline)

(***************************************************************************)
(* NewPort step by step, on a device that can fail it at any one step.     *)
(***************************************************************************)
\* the four arguments of NewPort after the path
Args(baudRate, parity, dataBits, stopBits) ==
    [baudRate |-> baudRate, parity |-> parity,
     dataBits |-> dataBits, stopBits |-> stopBits]

\* the nil *posixPort NewPort returns with an error
NilPort == [nil |-> TRUE]

\* the setters in the order NewPort calls them
SetterOrder == <<"SetBaudRate", "SetParity", "SetDataBits", "SetStopBits">>

\* the environment fails no step
NoFault == [at |-> "none", kind |-> "none"]

\* where the environment fails a NewPort call: nowhere, at one of its own
\* four kernel calls, or at the read or the write of one setter
NewPortFaults ==
    {NoFault}
    \cup {[at |-> a, kind |-> "fail"] :
            a \in {"open", "TIOCEXCL", "TIOCGETA", "TIOCSETA"}}
    \cup {[at |-> SetterOrder[i], kind |-> k] :
            i \in DOMAIN SetterOrder, k \in {"get", "set"}}

\* the fault a setter called by NewPort meets
SetterFault(fault, op) == IF fault.at = op THEN fault.kind ELSE "none"

\* unix.Open(path, O_NOCTTY|O_NONBLOCK|O_RDWR, 0)
UnixOpen(fds, fault) ==
    IF fault.at = "open" THEN [fd |-> ClosedFd, err |-> "ENOENT", fds |-> fds]
    ELSE [fd |-> DeviceFd, err |-> "nil", fds |-> fds \cup {DeviceFd}]

\* unix.IoctlSetInt(fd, TIOCEXCL, 0)
IoctlExcl(fd, fds, fault) ==
    IF fd \notin fds THEN "EBADF"
    ELSE IF fault.at = "TIOCEXCL" THEN "EBUSY"
    ELSE "nil"

\* one step of NewPort: its name, its error and the reads and writes of the
\* line configuration it made
Step(step, err, gets, sets) ==
    [step |-> step, err |-> err, gets |-> gets, sets |-> sets]

SetterStep(op, r) == Step(op, r.err, r.gets, r.sets)

\* what NewPort leaves: the port or nil, the error, the kernel's line
\* configuration and open handles, and the steps taken
NewPortResult(p, err, t, fds, taken) ==
    [port |-> p, err |-> err, termios |-> t, fds |-> fds, steps |-> taken]

\* a failure of NewPort with the deferred close left out
NewPortFailed_NoClose(err, t, taken, out) ==
    NewPortResult(NilPort, err, t, {DeviceFd}, taken)


\* a failure of NewPort after the open: the deferred function closes the
\* handle (the kernel answers out) and the error of the failed step goes back
NewPortFailed(err, t, taken, out) ==
    NewPortResult(NilPort, err, t, out.fds,
                  Append(taken, Step("close", out.err, 0, 0)))

\* NewPort(path, baudRate, parity, dataBits, stopBits) on a device whose
\* line configuration is t0, failed by the environment at fault; out is the
\* kernel's answer to the deferred unix.Close, used when the call fails
NewPortWith(path, t0, fds0, args, fault, out) ==
    LET o == UnixOpen(fds0, fault)
        s1 == <<Step("open", o.err, 0, 0)>>
        excl == IoctlExcl(o.fd, o.fds, fault)
        s2 == Append(s1, Step("TIOCEXCL", excl, 0, 0))
        get == IoctlGetTermios(o.fd, o.fds,
                               IF fault.at = "TIOCGETA" THEN "get" ELSE "none")
        s3 == Append(s2, Step("TIOCGETA", get, 1, 0))
        set == IoctlSetTermios(o.fd, o.fds,
                               IF fault.at = "TIOCSETA" THEN "set" ELSE "none")
        s4 == Append(s3, Step("TIOCSETA", set, 0, 1))
        p0 == NewPosixPort(path, o.fd)
        r1 == SetBaudRate(p0, Baseline(t0), o.fds, args.baudRate,
                          SetterFault(fault, "SetBaudRate"))
        s5 == Append(s4, SetterStep("SetBaudRate", r1))
        r2 == SetParity(r1.port, r1.termios, o.fds, args.parity,
                        SetterFault(fault, "SetParity"))
        s6 == Append(s5, SetterStep("SetParity", r2))
        r3 == SetDataBits(r2.port, r2.termios, o.fds, args.dataBits,
                          SetterFault(fault, "SetDataBits"))
        s7 == Append(s6, SetterStep("SetDataBits", r3))
        r4 == SetStopBits(r3.port, r3.termios, o.fds, args.stopBits,
                          SetterFault(fault, "SetStopBits"))
        s8 == Append(s7, SetterStep("SetStopBits", r4))
    IN  IF o.err # "nil" THEN NewPortResult(NilPort, o.err, t0, fds0, s1)
        ELSE IF excl # "nil" THEN NewPortFailed(excl, t0, s2, out)
        ELSE IF get # "nil" THEN NewPortFailed(get, t0, s3, out)
        ELSE IF set # "nil" THEN NewPortFailed(set, t0, s4, out)
        ELSE IF r1.err # "nil" THEN NewPortFailed(r1.err, r1.termios, s5, out)
        ELSE IF r2.err # "nil" THEN NewPortFailed(r2.err, r2.termios, s6, out)
        ELSE IF r3.err # "nil" THEN NewPortFailed(r3.err, r3.termios, s7, out)
        ELSE IF r4.err # "nil" THEN NewPortFailed(r4.err, r4.termios, s8, out)
        ELSE NewPortResult(r4.port, "nil", r4.termios, o.fds, s8)

\* the getters
BaudRate(p) == p.baudRate
Parity(p) == p.parity
DataBits(p) == p.dataBits
StopBits(p) == p.stopBits


VARIABLES
    port,       \* the posixPort object: its fields
    termios,    \* kernel: the line configuration of the device
    openFds,    \* kernel: the handles that are open
    now,        \* wall clock, time.Now()
    call,       \* the Read / Write call in flight: op, len(p), n, err, pc
    hist,       \* what the device did during the call in flight (or the last one)
    ret,        \* what the last completed operation returned
    ioctls,     \* control-interface calls made by the last operation
    steps,      \* the steps the last NewPort took, in order
    race        \* a Close on another thread: how far it is and what it met

vars == <<port, termios, openFds, now, call, hist, ret, ioctls, steps, race>>

(***************************************************************************)
(* The state.                                                              *)
(***************************************************************************)
DevicePath == "/dev/tty.usbserial"

\* the instants a deadline can be set to: the zero time, or an instant
Deadlines == ZeroTime .. MaxTime

\* the buffer lengths handed to Read and Write
Lengths == 0 .. MaxLen

\* no call in flight
Idle == [op |-> "none", len |-> 0, n |-> 0, err |-> "nil", pc |-> "idle"]

\* a call entering its loop
Entered(op, plen) == [op |-> op, len |-> plen, n |-> 0, err |-> "nil", pc |-> "loop"]

\* the history of a call that started at t and has made no attempt
NoHist(t) ==
    [attempts |-> 0,
     okSum |-> 0,
     xfer |-> [i \in 0 .. MaxLen - 1 |-> 0],
     onlyWB |-> TRUE,
     startNow |-> t,
     fatal |-> FALSE,
     afterFatal |-> FALSE,
     offsetOk |-> TRUE,
     paused |-> FALSE,
     lastErr |-> "nil",
     lastNow |-> t]

\* the history after an attempt at offset off, made at t, that the device
\* answered r
Attempted(h, off, r, paused, t) ==
    [attempts |-> h.attempts + 1,
     okSum |-> IF r.err = "nil" THEN h.okSum + r.k ELSE h.okSum,
     xfer |-> [i \in DOMAIN h.xfer |->
                 IF r.err = "nil" /\ off <= i /\ i < off + r.k
                 THEN h.xfer[i] + 1 ELSE h.xfer[i]],
     onlyWB |-> h.onlyWB /\ r.err = "EAGAIN",
     startNow |-> h.startNow,
     fatal |-> h.fatal \/ r.err \notin {"nil", "EAGAIN"},
     afterFatal |-> h.afterFatal \/ h.fatal,
     offsetOk |-> h.offsetOk /\ off = h.okSum,
     paused |-> paused,
     lastErr |-> r.err,
     lastNow |-> t]

Returned(op, arg, n, err) == [op |-> op, arg |-> arg, n |-> n, err |-> err]

NoIoctls == [gets |-> 0, sets |-> 0]

\* line configurations a device can have before it is opened
PriorTermios ==
    {[Ispeed |-> 9600, Ospeed |-> 9600, Cflag |-> CS8 \cup CREAD,
      Lflag |-> {}, Oflag |-> {}, Cc16 |-> 1, Cc17 |-> 0],
     [Ispeed |-> 19200, Ospeed |-> 19200,
      Cflag |-> CS7 \cup PARENB \cup PARODD \cup CSTOPB \cup IGNBRK,
      Lflag |-> {3, 8}, Oflag |-> {0}, Cc16 |-> 1, Cc17 |-> 0]}

\* the arguments the setters are called with: declared values, and one value
\* outside each enumeration
BaudRateArgs == {BaudRate134, BaudRate9600, BaudRate19200, BaudRate115200,
                 BaudRate230400 + 1}
ParityArgs == DeclaredParities \cup {ParityOdd + 1}
DataBitsArgs == DeclaredDataBits \cup {DataBits8 + 1}
StopBitsArgs == DeclaredStopBits \cup {StopBits2 + 1}

\* no Close has been started on another thread
NoRace == [pc |-> "idle", err |-> "nil", released |-> FALSE, n |-> 0, reused |-> FALSE]

\* the state NewPort leaves when it returns a port
Opened(t0, baudRate, parity, dataBits, stopBits) ==
    LET r == NewPort(DevicePath, t0, baudRate, parity, dataBits, stopBits) IN
    /\ r.err = "nil"
    /\ port = r.port
    /\ termios = r.termios
    /\ openFds = {DeviceFd}
    /\ now = 1
    /\ call = Idle
    /\ hist = NoHist(ZeroTime)
    /\ ret = Returned("NewPort", baudRate, 0, "nil")
    /\ ioctls = NoIoctls
    /\ steps = NewPortWith(DevicePath, t0, {}, Args(baudRate, parity, dataBits, stopBits),
                           NoFault, [err |-> "nil", fds |-> {}]).steps
    /\ race = NoRace

(***************************************************************************)
(* Read and Write.                                                         *)
(***************************************************************************)
CallRead(plen) ==
    /\ call.pc = "idle"
    /\ hist' = NoHist(now)
    /\ ioctls' = NoIoctls
    /\ IF ReadEmpty(plen)
       THEN /\ call' = Idle
            /\ ret' = Returned("Read", plen, 0, "nil")
       ELSE /\ call' = Entered("Read", plen)
            /\ ret' = Returned("none", 0, 0, "nil")
    /\ UNCHANGED <<port, termios, openFds, now, steps, race>>

ReadLoop ==
    /\ call.pc = "loop"
    /\ call.op = "Read"
    /\ hist.attempts < MaxAttempts
    /\ \E r \in UnixRead(port.fd, openFds, call.len - call.n) :
         LET it == ReadIter(port, call.len, call.n, r, now) IN
         /\ hist' = Attempted(hist, call.n, r, it.paused, now)
         /\ IF it.done
            THEN /\ call' = Idle
                 /\ ret' = Returned("Read", call.len, it.n, it.err)
            ELSE /\ call' = [call EXCEPT !.n = it.n, !.err = it.err]
                 /\ ret' = ret
    /\ UNCHANGED <<port, termios, openFds, now, ioctls, steps, race>>

CallWrite(plen) ==
    /\ call.pc = "idle"
    /\ hist' = NoHist(now)
    /\ ioctls' = NoIoctls
    /\ IF WriteEmpty(plen)
       THEN /\ call' = Idle
            /\ ret' = Returned("Write", plen, 0, "nil")
       ELSE /\ call' = Entered("Write", plen)
            /\ ret' = Returned("none", 0, 0, "nil")
    /\ UNCHANGED <<port, termios, openFds, now, steps, race>>

WriteLoop ==
    /\ call.pc = "loop"
    /\ call.op = "Write"
    /\ hist.attempts < MaxAttempts
    /\ \E r \in UnixWrite(port.fd, openFds, call.len - call.n) :
         LET it == WriteIter(port, call.len, call.n, r, now) IN
         /\ hist' = Attempted(hist, call.n, r, it.paused, now)
         /\ IF it.done
            THEN /\ call' = Idle
                 /\ ret' = Returned("Write", call.len, it.n, it.err)
            ELSE /\ call' = [call EXCEPT !.n = it.n, !.err = it.err]
                 /\ ret' = ret
    /\ UNCHANGED <<port, termios, openFds, now, ioctls, steps, race>>

(***************************************************************************)
(* The deadline setters, Close and the clock.                              *)
(***************************************************************************)
CallSetDeadline(deadline) ==
    /\ call.pc = "idle"
    /\ port' = SetDeadline(port, deadline)
    /\ ret' = Returned("SetDeadline", deadline, 0, "nil")
    /\ hist' = NoHist(ZeroTime)
    /\ ioctls' = NoIoctls
    /\ UNCHANGED <<termios, openFds, now, call, steps, race>>

CallSetReadDeadline(deadline) ==
    /\ call.pc = "idle"
    /\ port' = SetReadDeadline(port, deadline)
    /\ ret' = Returned("SetReadDeadline", deadline, 0, "nil")
    /\ hist' = NoHist(ZeroTime)
    /\ ioctls' = NoIoctls
    /\ UNCHANGED <<termios, openFds, now, call, steps, race>>

CallSetWriteDeadline(deadline) ==
    /\ call.pc = "idle"
    /\ port' = SetWriteDeadline(port, deadline)
    /\ ret' = Returned("SetWriteDeadline", deadline, 0, "nil")
    /\ hist' = NoHist(ZeroTime)
    /\ ioctls' = NoIoctls
    /\ UNCHANGED <<termios, openFds, now, call, steps, race>>

CallClose ==
    /\ call.pc = "idle"
    /\ \E out \in UnixClose(port.fd, openFds) :
         /\ port' = Close(port, out)
         /\ openFds' = out.fds
         /\ ret' = Returned("Close", 0, 0, out.err)
    /\ hist' = NoHist(ZeroTime)
    /\ ioctls' = NoIoctls
    /\ UNCHANGED <<termios, now, call, steps, race>>

Tick ==
    /\ now < MaxTime
    /\ now' = now + 1
    /\ UNCHANGED <<port, termios, openFds, call, hist, ret, ioctls, steps, race>>

(***************************************************************************)
(* The configuration setters.                                              *)
(***************************************************************************)
\* the state after a setter returned r
AfterSetter(op, arg, r) ==
    /\ port' = r.port
    /\ termios' = r.termios
    /\ ret' = Returned(op, arg, 0, r.err)
    /\ ioctls' = [gets |-> r.gets, sets |-> r.sets]
    /\ hist' = NoHist(ZeroTime)
    /\ UNCHANGED <<openFds, now, call, steps, race>>

CallSetBaudRate(baudRate, fault) ==
    /\ call.pc = "idle"
    /\ AfterSetter("SetBaudRate", baudRate,
                   SetBaudRate(port, termios, openFds, baudRate, fault))

CallSetParity(parity, fault) ==
    /\ call.pc = "idle"
    /\ AfterSetter("SetParity", parity,
                   SetParity(port, termios, openFds, parity, fault))

CallSetDataBits(dataBits, fault) ==
    /\ call.pc = "idle"
    /\ AfterSetter("SetDataBits", dataBits,
                   SetDataBits(port, termios, openFds, dataBits, fault))

CallSetStopBits(stopBits, fault) ==
    /\ call.pc = "idle"
    /\ AfterSetter("SetStopBits", stopBits,
                   SetStopBits(port, termios, openFds, stopBits, fault))

(***************************************************************************)
(* The specification of the I/O path: a port opened at 9600-N-8-1, its     *)
(* deadlines, Read, Write and Close under a single owner.                  *)
(***************************************************************************)
InitIO ==
    \E t0 \in PriorTermios :
        Opened(t0, BaudRate9600, ParityNone, DataBits8, StopBits1)

NextIO ==
    \/ \E plen \in Lengths : CallRead(plen)
    \/ ReadLoop
    \/ \E plen \in Lengths : CallWrite(plen)
    \/ WriteLoop
    \/ \E deadline \in Deadlines : CallSetDeadline(deadline)
    \/ \E deadline \in Deadlines : CallSetReadDeadline(deadline)
    \/ \E deadline \in Deadlines : CallSetWriteDeadline(deadline)
    \/ CallClose
    \/ Tick

SpecIO == InitIO /\ [][NextIO]_vars

(***************************************************************************)
(* The specification of the configuration path: a port opened with any of  *)
(* the argument values NewPort accepts, its four setters and Close.        *)
(***************************************************************************)
InitCfg ==
    \E t0 \in PriorTermios, baudRate \in BaudRateArgs, parity \in ParityArgs,
       dataBits \in DataBitsArgs, stopBits \in StopBitsArgs :
        Opened(t0, baudRate, parity, dataBits, stopBits)

NextCfg ==
    \/ \E baudRate \in BaudRateArgs, fault \in Faults : CallSetBaudRate(baudRate, fault)
    \/ \E parity \in ParityArgs, fault \in Faults : CallSetParity(parity, fault)
    \/ \E dataBits \in DataBitsArgs, fault \in Faults : CallSetDataBits(dataBits, fault)
    \/ \E stopBits \in StopBitsArgs, fault \in Faults : CallSetStopBits(stopBits, fault)
    \/ CallClose

SpecCfg == InitCfg /\ [][NextCfg]_vars

(***************************************************************************)
(* The specification of construction: a device not yet opened, NewPort     *)
(* with any argument values and any one fault, then the getters and Close  *)
(* on the port it returned.                                                *)
(***************************************************************************)
\* the reads and the writes of the line configuration among the steps taken
Gets(taken) ==
    LET f[i \in 0 .. Len(taken)] == IF i = 0 THEN 0 ELSE f[i - 1] + taken[i].gets
    IN  f[Len(taken)]

Sets(taken) ==
    LET f[i \in 0 .. Len(taken)] == IF i = 0 THEN 0 ELSE f[i - 1] + taken[i].sets
    IN  f[Len(taken)]

\* NewPort is called once, on the device not yet opened
CallNewPort(args, fault) ==
    /\ port = NilPort
    /\ steps = <<>>
    /\ \E out \in UnixClose(DeviceFd, {DeviceFd}) :
         LET r == NewPortWith(DevicePath, termios, openFds, args, fault, out) IN
         /\ port' = r.port
         /\ termios' = r.termios
         /\ openFds' = r.fds
         /\ steps' = r.steps
         /\ ret' = Returned("NewPort", args, 0, r.err)
         /\ ioctls' = [gets |-> Gets(r.steps), sets |-> Sets(r.steps)]
    /\ hist' = NoHist(ZeroTime)
    /\ UNCHANGED <<now, call, race>>

\* a getter returns value; ret.n holds it
AfterGetter(op, value) ==
    /\ port # NilPort
    /\ ret' = Returned(op, 0, value, "nil")
    /\ ioctls' = NoIoctls
    /\ hist' = NoHist(ZeroTime)
    /\ UNCHANGED <<port, termios, openFds, now, call, steps, race>>

CallBaudRate == AfterGetter("BaudRate", BaudRate(port))
CallParity == AfterGetter("Parity", Parity(port))
CallDataBits == AfterGetter("DataBits", DataBits(port))
CallStopBits == AfterGetter("StopBits", StopBits(port))

InitNew ==
    /\ port = NilPort
    /\ termios \in PriorTermios
    /\ openFds = {}
    /\ now = 1
    /\ call = Idle
    /\ hist = NoHist(ZeroTime)
    /\ ret = Returned("none", 0, 0, "nil")
    /\ ioctls = NoIoctls
    /\ steps = <<>>
    /\ race = NoRace

NextNew ==
    \/ \E baudRate \in BaudRateArgs, parity \in ParityArgs,
          dataBits \in DataBitsArgs, stopBits \in StopBitsArgs,
          fault \in NewPortFaults :
            CallNewPort(Args(baudRate, parity, dataBits, stopBits), fault)
    \/ CallBaudRate
    \/ CallParity
    \/ CallDataBits
    \/ CallStopBits
    \/ port # NilPort /\ CallClose

SpecNew == InitNew /\ [][NextNew]_vars

(***************************************************************************)
(* The specification of the whole life of a port: every operation of the   *)
(* port on a port opened at 9600-N-8-1, with small argument sets.          *)
(***************************************************************************)
\* the arguments of this specification: for each setter the stored default
\* and one other declared value; short buffers; the zero time and an instant
LifeBaudRates == {BaudRate9600, BaudRate19200}
LifeParities == {ParityNone, ParityEven}
LifeDataBits == {DataBits8, DataBits7}
LifeStopBits == {StopBits1, StopBits2}
LifeLengths == {0, MaxLen}
LifeDeadlines == {ZeroTime, MaxTime - 1}

NextLife ==
    \/ \E plen \in LifeLengths : CallRead(plen)
    \/ ReadLoop
    \/ \E plen \in LifeLengths : CallWrite(plen)
    \/ WriteLoop
    \/ \E deadline \in LifeDeadlines : CallSetDeadline(deadline)
    \/ \E deadline \in LifeDeadlines : CallSetReadDeadline(deadline)
    \/ \E deadline \in LifeDeadlines : CallSetWriteDeadline(deadline)
    \/ \E baudRate \in LifeBaudRates, fault \in Faults : CallSetBaudRate(baudRate, fault)
    \/ \E parity \in LifeParities, fault \in Faults : CallSetParity(parity, fault)
    \/ \E dataBits \in LifeDataBits, fault \in Faults : CallSetDataBits(dataBits, fault)
    \/ \E stopBits \in LifeStopBits, fault \in Faults : CallSetStopBits(stopBits, fault)
    \/ CallClose
    \/ Tick

SpecLife == InitIO /\ [][NextLife]_vars

(***************************************************************************)
(* The network-connection adapter: a conn holds a port and hands each call *)
(* to it.  Read, Write and Close of the conn are those of the port.        *)
(***************************************************************************)
ConnSetDeadline(p, deadline) == SetDeadline(p, deadline)
ConnSetReadDeadline(p, deadline) == SetReadDeadline(p, deadline)
ConnSetWriteDeadline(p, deadline) == SetReadDeadline(p, deadline)

\* the state after a deadline call of the conn left the port p
AfterConnDeadline(op, deadline, p) ==
    /\ call.pc = "idle"
    /\ port' = p
    /\ ret' = Returned(op, deadline, 0, "nil")
    /\ hist' = NoHist(ZeroTime)
    /\ ioctls' = NoIoctls
    /\ UNCHANGED <<termios, openFds, now, call, steps, race>>

CallConnSetDeadline(deadline) ==
    AfterConnDeadline("conn.SetDeadline", deadline, ConnSetDeadline(port, deadline))

CallConnSetReadDeadline(deadline) ==
    AfterConnDeadline("conn.SetReadDeadline", deadline,
                      ConnSetReadDeadline(port, deadline))

CallConnSetWriteDeadline(deadline) ==
    AfterConnDeadline("conn.SetWriteDeadline", deadline,
                      ConnSetWriteDeadline(port, deadline))

NextConn ==
    \/ \E plen \in Lengths : CallRead(plen)
    \/ ReadLoop
    \/ \E plen \in Lengths : CallWrite(plen)
    \/ WriteLoop
    \/ \E deadline \in Deadlines : CallConnSetDeadline(deadline)
    \/ \E deadline \in Deadlines : CallConnSetReadDeadline(deadline)
    \/ \E deadline \in Deadlines : CallConnSetWriteDeadline(deadline)
    \/ CallClose
    \/ Tick

SpecConn == InitIO /\ [][NextConn]_vars

(***************************************************************************)
(* The specification of termination: the I/O path with loops that are not  *)
(* cut off after MaxAttempts attempts (the history of the call is not      *)
(* kept), deadlines the clock can pass, a clock that keeps advancing and   *)
(* a caller whose loop keeps running.                                      *)
(***************************************************************************)
\* the instants a deadline is set to here: each one passes before the clock
\* stops at MaxTime
LiveDeadlines == ZeroTime .. MaxTime - 1

\* one iteration of Read's loop, with any answer of the device
LiveReadLoop ==
    /\ call.pc = "loop"
    /\ call.op = "Read"
    /\ \E r \in UnixRead(port.fd, openFds, call.len - call.n) :
         LET it == ReadIter(port, call.len, call.n, r, now) IN
         IF it.done
         THEN /\ call' = Idle
              /\ ret' = Returned("Read", call.len, it.n, it.err)
         ELSE /\ call' = [call EXCEPT !.n = it.n, !.err = it.err]
              /\ ret' = ret
    /\ UNCHANGED <<port, termios, openFds, now, hist, ioctls, steps, race>>

\* one iteration of Write's loop, with any answer of the device
LiveWriteLoop ==
    /\ call.pc = "loop"
    /\ call.op = "Write"
    /\ \E r \in UnixWrite(port.fd, openFds, call.len - call.n) :
         LET it == WriteIter(port, call.len, call.n, r, now) IN
         IF it.done
         THEN /\ call' = Idle
              /\ ret' = Returned("Write", call.len, it.n, it.err)
         ELSE /\ call' = [call EXCEPT !.n = it.n, !.err = it.err]
              /\ ret' = ret
    /\ UNCHANGED <<port, termios, openFds, now, hist, ioctls, steps, race>>

NextLive ==
    \/ \E plen \in Lengths : CallRead(plen)
    \/ LiveReadLoop
    \/ \E plen \in Lengths : CallWrite(plen)
    \/ LiveWriteLoop
    \/ \E deadline \in LiveDeadlines : CallSetDeadline(deadline)
    \/ \E deadline \in LiveDeadlines : CallSetReadDeadline(deadline)
    \/ \E deadline \in LiveDeadlines : CallSetWriteDeadline(deadline)
    \/ CallClose
    \/ Tick

\* the clock keeps advancing and a call in its loop keeps iterating
SpecLive ==
    /\ InitIO
    /\ [][NextLive]_vars
    /\ WF_vars(Tick)
    /\ WF_vars(LiveReadLoop)
    /\ WF_vars(LiveWriteLoop)

(***************************************************************************)
(* The specification of a concurrent Close: one thread calls Read and      *)
(* Write, a second thread calls Close once, at any moment, with nothing    *)
(* serializing the two, and a third may open a device after the handle     *)
(* was released.  Close is two steps, unix.Close and the assignment of -1  *)
(* to port.fd; the loops read port.fd without synchronization.             *)
(***************************************************************************)
\* the values the unsynchronized read of port.fd in a loop can yield: the
\* field, or the handle it held before the other thread wrote it
RacyFd == IF race.pc = "done" THEN {port.fd, DeviceFd} ELSE {port.fd}

\* race after an iteration of a loop: the mark of a release during the
\* call in flight is dropped when the call returns
AfterRaceIter(done) == IF done THEN [race EXCEPT !.released = FALSE] ELSE race

RaceReadLoop ==
    /\ call.pc = "loop"
    /\ call.op = "Read"
    /\ hist.attempts < MaxAttempts
    /\ \E fd \in RacyFd :
       \E r \in UnixRead(fd, openFds, call.len - call.n) :
         LET it == ReadIter(port, call.len, call.n, r, now) IN
         /\ hist' = Attempted(hist, call.n, r, it.paused, now)
         /\ race' = AfterRaceIter(it.done)
         /\ IF it.done
            THEN /\ call' = Idle
                 /\ ret' = Returned("Read", call.len, it.n, it.err)
            ELSE /\ call' = [call EXCEPT !.n = it.n, !.err = it.err]
                 /\ ret' = ret
    /\ UNCHANGED <<port, termios, openFds, now, ioctls, steps>>

RaceWriteLoop ==
    /\ call.pc = "loop"
    /\ call.op = "Write"
    /\ hist.attempts < MaxAttempts
    /\ \E fd \in RacyFd :
       \E r \in UnixWrite(fd, openFds, call.len - call.n) :
         LET it == WriteIter(port, call.len, call.n, r, now) IN
         /\ hist' = Attempted(hist, call.n, r, it.paused, now)
         /\ race' = AfterRaceIter(it.done)
         /\ IF it.done
            THEN /\ call' = Idle
                 /\ ret' = Returned("Write", call.len, it.n, it.err)
            ELSE /\ call' = [call EXCEPT !.n = it.n, !.err = it.err]
                 /\ ret' = ret
    /\ UNCHANGED <<port, termios, openFds, now, ioctls, steps>>

\* the first step of Close on the other thread: unix.Close(port.fd).  With
\* an error Close returns at once; race.released tells that the handle was
\* released while a call was in its loop, race.n what the call had then
RaceCloseRelease ==
    /\ race.pc = "idle"
    /\ \E out \in UnixClose(port.fd, openFds) :
         /\ openFds' = out.fds
         /\ race' = [pc |-> IF out.err = "nil" THEN "released" ELSE "done",
                     err |-> out.err,
                     released |-> call.pc = "loop" /\ out.fds # openFds,
                     n |-> call.n,
                     reused |-> FALSE]
    /\ UNCHANGED <<port, termios, now, call, hist, ret, ioctls, steps>>

\* the second step of Close: port.fd = -1
RaceCloseMark ==
    /\ race.pc = "released"
    /\ port' = Close(port, [err |-> race.err])
    /\ race' = [race EXCEPT !.pc = "done"]
    /\ UNCHANGED <<termios, openFds, now, call, hist, ret, ioctls, steps>>

\* another thread opens a device after the release: the kernel hands out
\* the free descriptor again
RaceOpen ==
    /\ race.pc # "idle"
    /\ DeviceFd \notin openFds
    /\ openFds' = UnixOpen(openFds, NoFault).fds
    /\ race' = [race EXCEPT !.reused = TRUE]
    /\ UNCHANGED <<port, termios, now, call, hist, ret, ioctls, steps>>

NextRace ==
    \/ \E plen \in LifeLengths : CallRead(plen)
    \/ RaceReadLoop
    \/ \E plen \in LifeLengths : CallWrite(plen)
    \/ RaceWriteLoop
    \/ \E deadline \in LifeDeadlines : CallSetDeadline(deadline)
    \/ RaceCloseRelease
    \/ RaceCloseMark
    \/ RaceOpen
    \/ Tick

SpecRace == InitIO /\ [][NextRace]_vars

(***************************************************************************)
(* Properties of Read and Write (SpecIO).                                  *)
(***************************************************************************)
\* a Read or Write call has returned: ret holds its result, ret.arg is
\* len(p), hist what the device did during the call
IOReturned == ret.op \in {"Read", "Write"}

\* an error of the device that is not would-block
Genuine(err) == err \in {"EIO", "EBADF"}

\* the deadline the contract gives an operation
ContractDeadline(op) ==
    IF op = "Read" THEN port.readDeadline ELSE port.writeDeadline

\* the deadline d was set and had passed when the call started
PastAtStart(d) == ~IsZero(d) /\ d < hist.startNow

\* C1: with no deadline set, a Read or Write of a non-empty buffer returns
\* only with the whole buffer transferred and no error, or with a genuine
\* error; never with a short count and no error, never with would-block.
C1_NoDeadlineRunsToCompletion ==
    (/\ IOReturned
     /\ ret.arg > 0
     /\ IsZero(port.readDeadline)
     /\ IsZero(port.writeDeadline))
    => \/ ret.err = "nil" /\ ret.n = ret.arg
       \/ Genuine(ret.err)

\* C2: the error Read or Write returns is never would-block (EAGAIN),
\* whatever the deadlines and the device's answers.
C2_WouldBlockNeverReturned ==
    IOReturned => ret.err # "EAGAIN"

\* C3: Read's timeout follows the read deadline alone: with the read
\* deadline set and the write deadline unset, a Read that met only
\* would-block returns a timeout, after the read deadline; and a Read that
\* returns a timeout has a read deadline that has passed.
C3_ReadFollowsReadDeadline ==
    /\ (/\ ret.op = "Read"
        /\ hist.attempts > 0
        /\ hist.onlyWB
        /\ ~IsZero(port.readDeadline)
        /\ IsZero(port.writeDeadline))
       => /\ ret.err = "ETIMEDOUT"
          /\ After(hist.lastNow, port.readDeadline)
    /\ (ret.op = "Read" /\ ret.err = "ETIMEDOUT")
       => /\ ~IsZero(port.readDeadline)
          /\ After(hist.lastNow, port.readDeadline)

\* C4: whenever Read or Write returns, the count is the sum of the bytes of
\* the successful attempts of the call, lies in 0 .. len(p), every attempt
\* started at the offset reached so far, and bytes 0 .. count-1 were each
\* transferred once and no other byte was; the same holds of n inside the
\* loop.
C4_CountIsSumOfAttempts ==
    /\ IOReturned
       => /\ ret.n = hist.okSum
          /\ 0 <= ret.n /\ ret.n <= ret.arg
          /\ hist.offsetOk
          /\ \A i \in DOMAIN hist.xfer :
                hist.xfer[i] = (IF i < ret.n THEN 1 ELSE 0)
    /\ call.pc = "loop"
       => /\ call.n = hist.okSum
          /\ 0 <= call.n /\ call.n < call.len
          /\ hist.offsetOk

\* C4 witness: a Read that transferred part of its buffer, then met
\* would-block past the deadline, returned the timeout with the partial count
C4_PartialThenTimeout ==
    /\ ret.op = "Read"
    /\ ret.err = "ETIMEDOUT"
    /\ hist.attempts >= 2
    /\ hist.lastErr = "EAGAIN"
    /\ 0 < ret.n /\ ret.n < ret.arg
    /\ ret.n = hist.okSum

\* C5: a genuine error of a device attempt ends the call at once: no
\* attempt follows it, the call returns that error (not a timeout) and the
\* bytes of the earlier attempts.
C5_GenuineErrorReturnsAtOnce ==
    /\ call.pc = "loop" => ~hist.fatal
    /\ (IOReturned /\ hist.fatal)
       => /\ ~hist.afterFatal
          /\ Genuine(ret.err)
          /\ ret.err = hist.lastErr
          /\ ret.n = hist.okSum

\* C5 witness: a Read returned EIO and the bytes read before it, at a time
\* its loop's deadline had passed
C5_ErrorAfterProgressPastDeadline ==
    /\ ret.op = "Read"
    /\ ret.err = "EIO"
    /\ ret.n > 0
    /\ ~IsZero(ReadLoopDeadline(port))
    /\ After(hist.lastNow, ReadLoopDeadline(port))

\* C6: a Read or Write of a non-empty buffer that meets only would-block,
\* its deadline already past when it starts, makes one attempt and returns
\* a timeout and the count 0.
C6_PastDeadlineWouldBlockTimesOut ==
    /\ (/\ IOReturned
        /\ hist.attempts > 0
        /\ hist.onlyWB
        /\ PastAtStart(ContractDeadline(ret.op)))
       => /\ hist.attempts = 1
          /\ ret.err = "ETIMEDOUT"
          /\ ret.n = 0
    /\ (/\ call.pc = "loop"
        /\ hist.onlyWB
        /\ PastAtStart(ContractDeadline(call.op)))
       => hist.attempts = 0

OneAttemptThenTimeout ==
    /\ hist.attempts = 1
    /\ (hist.lastErr = "nil" /\ hist.okSum = ret.arg) => ret.err = "nil"
    /\ hist.fatal => ret.err = hist.lastErr
    /\ (~hist.fatal /\ ~(hist.lastErr = "nil" /\ hist.okSum = ret.arg))
       => ret.err = "ETIMEDOUT"

C8_EmptyBufferIsNoOp ==
    /\ (IOReturned /\ ret.arg = 0)
       => /\ ret.n = 0
          /\ ret.err = "nil"
          /\ hist.attempts = 0
    /\ call.pc = "loop" => call.len > 0

\* C8 witness: an empty Read returned on a closed port with a deadline set
C8_EmptyReadOnClosedPort ==
    /\ ret.op = "Read"
    /\ ret.arg = 0
    /\ ret.n = 0
    /\ ret.err = "nil"
    /\ port.fd = ClosedFd
    /\ ~IsZero(port.writeDeadline)
    /\ ~IsZero(port.readDeadline)

(***************************************************************************)
(* Properties of the setters (SpecCfg).                                    *)
(***************************************************************************)
Setters == {"SetBaudRate", "SetParity", "SetDataBits", "SetStopBits"}

\* the field of port p a setter stores its argument in
FieldOf(op, p) ==
    CASE op = "SetBaudRate" -> p.baudRate
      [] op = "SetParity" -> p.parity
      [] op = "SetDataBits" -> p.dataBits
      [] op = "SetStopBits" -> p.stopBits

\* C9: a setter that fails (invalid value, or a failed control-interface
\* read or write) leaves the kernel's line configuration and every field of
\* the port as they were; a step of a setter that changes the port or the
\* kernel has made its write and returned success.
C9_FailedSetterChangesNothing ==
    [][ret'.op \in Setters
        => /\ ret'.err # "nil" => (port' = port /\ termios' = termios)
           /\ (port' # port \/ termios' # termios)
              => (ret'.err = "nil" /\ ioctls'.gets = 1 /\ ioctls'.sets = 1)]_vars

\* C9 witness: SetBaudRate failed in its control-interface write
C9_WriteFailed ==
    /\ ret.op = "SetBaudRate"
    /\ ret.err = "EIO"
    /\ ioctls.sets = 1
    /\ ret.arg # port.baudRate

\* C10: a setter called with the value the port already stores returns
\* success, makes no control-interface read or write and changes nothing.
C10_SameValueIsNoOp ==
    [][(ret'.op \in Setters /\ ret'.arg = FieldOf(ret'.op, port))
        => /\ ret'.err = "nil"
           /\ ioctls' = NoIoctls
           /\ port' = port
           /\ termios' = termios]_vars

\* C10 witness: SetStopBits returned from its early return, on a closed port
C10_SameValueReturned ==
    /\ ret.op = "SetStopBits"
    /\ ret.arg = port.stopBits
    /\ ret.err = "nil"
    /\ ioctls = NoIoctls
    /\ port.fd = ClosedFd

(***************************************************************************)
(* Properties of NewPort and the port's configuration (SpecCfg).           *)
(***************************************************************************)
\* the port holds a handle the kernel has open
PortOpen == port.fd # ClosedFd /\ port.fd \in openFds

\* the line configuration t encodes the settings of port p: its speeds are
\* the speed code of p.baudRate, and its parity, word-size and stop bits are
\* the bits the setters write for p.parity, p.dataBits and p.stopBits
Encodes(t, p) ==
    /\ SpeedCode(p.baudRate) # NoCode
    /\ t.Ispeed = SpeedCode(p.baudRate)
    /\ t.Ospeed = SpeedCode(p.baudRate)
    /\ t.Cflag \cap (PARENB \cup PARODD) = ParityBits(p.parity).bits
    /\ t.Cflag \cap CSIZE = DataBitsBits(p.dataBits).bits
    /\ t.Cflag \cap CSTOPB = StopBitsBits(p.stopBits).bits

\* C11: while the port is open, from the moment NewPort returned it and
\* through every setter call, its baudRate, parity, dataBits and stopBits
\* are what the kernel's line configuration encodes, whatever the line
\* configuration of the device was before it was opened.
C11_MemoryMatchesKernel ==
    PortOpen => Encodes(termios, port)

\* C11, for the baud rate alone: the kernel's speeds are the speed code of
\* the port's baudRate while the port is open.
C11_SpeedMatchesKernel ==
    PortOpen => /\ termios.Ispeed = SpeedCode(port.baudRate)
                /\ termios.Ospeed = SpeedCode(port.baudRate)

(***************************************************************************)
(* Properties of construction (SpecNew).                                   *)
(***************************************************************************)
\* NewPort has returned: ret.arg holds its four arguments, steps what it did
NewPortReturned == ret.op = "NewPort"

\* the errors of the setters' switches
InvalidErrors == {"invalid baud rate", "invalid parity",
                  "invalid data bits", "invalid stop bits"}

\* the combinations the specification names as standard
StandardArgs == {Args(BaudRate9600, ParityNone, DataBits8, StopBits1),
                 Args(BaudRate115200, ParityEven, DataBits7, StopBits2)}

\* C12: when NewPort succeeds the port's four fields are the requested
\* values and each getter called right after it returns the requested
\* value; with a standard combination NewPort fails only when a kernel
\* call fails, never with an invalid-value error.
C12_GettersReturnRequested ==
    [][/\ (ret'.op = "NewPort" /\ ret'.err = "nil")
          => /\ port' # NilPort
             /\ BaudRate(port') = ret'.arg.baudRate
             /\ Parity(port') = ret'.arg.parity
             /\ DataBits(port') = ret'.arg.dataBits
             /\ StopBits(port') = ret'.arg.stopBits
       /\ (NewPortReturned /\ ret.err = "nil")
          => /\ ret'.op = "BaudRate" => ret'.n = ret.arg.baudRate
             /\ ret'.op = "Parity" => ret'.n = ret.arg.parity
             /\ ret'.op = "DataBits" => ret'.n = ret.arg.dataBits
             /\ ret'.op = "StopBits" => ret'.n = ret.arg.stopBits
       /\ (ret'.op = "NewPort" /\ ret'.arg \in StandardArgs)
          => ret'.err \notin InvalidErrors]_vars

\* NewPort(115200, Even, 7, 2) succeeded and Parity() returned Even
C12_ParityReadBack ==
    /\ ret = Returned("Parity", 0, ParityEven, "nil")
    /\ port.baudRate = BaudRate115200
    /\ port.dataBits = DataBits7
    /\ port.stopBits = StopBits2
    /\ Len(steps) = 8
    /\ steps[6].sets = 1


(***************************************************************************)
(* Further properties of the setters (SpecCfg).                            *)
(***************************************************************************)
\* C13: SetBaudRate called with a declared BaudRate value never fails with
\* the invalid-baud-rate error.
C13_DeclaredBaudRateAccepted ==
    (ret.op = "SetBaudRate" /\ ret.arg \in DeclaredBaudRates)
    => ret.err # "invalid baud rate"


\* the steps of one name among the steps taken
StepsNamed(name) == {i \in DOMAIN steps : steps[i].step = name}

\* C14: when NewPort fails after the open succeeded, no port is returned,
\* unix.Close was called exactly once and as the last step, the error
\* returned is the error of the step before it, every earlier step
\* succeeded, and the handle is no longer open (unless the kernel answered
\* that close with EINTR and kept it); when the open itself fails nothing
\* is closed or left open; when NewPort returns a port nothing was closed
\* and the port's handle is open.
C14_FailureClosesHandleOnce ==
    NewPortReturned =>
        /\ (ret.err # "nil" /\ steps[1].err = "nil")
           => /\ port = NilPort
              /\ StepsNamed("close") = {Len(steps)}
              /\ Len(steps) >= 3
              /\ ret.err = steps[Len(steps) - 1].err
              /\ \A i \in 1 .. Len(steps) - 2 : steps[i].err = "nil"
              /\ steps[Len(steps)].err # "EINTR" => openFds = {}
        /\ (ret.err # "nil" /\ steps[1].err # "nil")
           => /\ port = NilPort
              /\ Len(steps) = 1
              /\ ret.err = steps[1].err
              /\ openFds = {}
        /\ ret.err = "nil"
           => /\ port # NilPort
              /\ StepsNamed("close") = {}
              /\ openFds = {port.fd}
        /\ openFds # {}
           => \/ port # NilPort
              \/ steps[Len(steps)] = Step("close", "EINTR", 0, 0)

\* NewPort failed at the write of SetDataBits and the handle was closed
C14_SetterWriteFailed ==
    /\ NewPortReturned
    /\ ret.err = "EIO"
    /\ Len(steps) = 8
    /\ steps[7] = Step("SetDataBits", "EIO", 1, 1)
    /\ steps[8] = Step("close", "nil", 0, 0)
    /\ port = NilPort
    /\ openFds = {}


(***************************************************************************)
(* Properties of Close and of the closed port.                             *)
(***************************************************************************)
\* the port was closed with success: its handle field is the sentinel
PortClosed == port.fd = ClosedFd

\* C15: a Close that reports success leaves the handle field -1 and the
\* device handle released; a Close on a port already closed releases
\* nothing, changes no field of the port and returns EBADF every time.
C15_CloseReleasesOnce ==
    [][CallClose
       => /\ ret'.err = "nil"
             => /\ ~PortClosed
                /\ port' = [port EXCEPT !.fd = ClosedFd]
                /\ port.fd \in openFds
                /\ openFds' = openFds \ {port.fd}
          /\ PortClosed
             => /\ port' = port
                /\ openFds' = openFds
                /\ termios' = termios
                /\ ret'.err = "EBADF"
          /\ ret'.err # "nil" => port' = port]_vars

\* Close was called on the closed port and returned EBADF
C15_SecondClose ==
    /\ PortClosed
    /\ ret = Returned("Close", 0, 0, "EBADF")
    /\ openFds = {}


\* this step completes an operation other than Close on the closed port:
\* ret' holds what it returned and ret'.arg its argument
OnClosedPort ==
    /\ PortClosed
    /\ now' = now
    /\ ret'.op \notin {"none", "Close"}

C17_ConnDelegatesToSameName ==
    [][now' = now
       => /\ ret'.op = "conn.SetDeadline"
             => port' = SetDeadline(port, ret'.arg)
          /\ ret'.op = "conn.SetReadDeadline"
             => port' = SetReadDeadline(port, ret'.arg)
          /\ ret'.op = "conn.SetWriteDeadline"
             => port' = SetWriteDeadline(port, ret'.arg)]_vars


(***************************************************************************)
(* Properties of the order of NewPort's steps (SpecNew).                   *)
(***************************************************************************)
\* the steps of NewPort in the order the specification gives them
CanonicalOrder ==
    <<"open", "TIOCEXCL", "TIOCGETA", "TIOCSETA",
      "SetBaudRate", "SetParity", "SetDataBits", "SetStopBits">>

\* the steps taken, without the close a failure ends with
OwnSteps == SelectSeq(steps, LAMBDA s : s.step # "close")

\* the steps taken are the first ones of the canonical order, each one but
\* the last succeeded, and a setter wrote the line configuration only
\* after the baseline write succeeded
StepsInOrder ==
    /\ Len(OwnSteps) \in 1 .. Len(CanonicalOrder)
    /\ \A i \in DOMAIN OwnSteps : OwnSteps[i].step = CanonicalOrder[i]
    /\ \A i \in 1 .. Len(OwnSteps) - 1 : OwnSteps[i].err = "nil"
    /\ \A i \in DOMAIN OwnSteps :
         OwnSteps[i].sets > 0 /\ i > 4 => OwnSteps[4].err = "nil"
    /\ ret.err = OwnSteps[Len(OwnSteps)].err
    /\ ret.err = "nil" => Len(OwnSteps) = Len(CanonicalOrder)

\* the line configuration holds the canonical baseline: no parity, 8 data
\* bits, 1 stop bit, raw
CanonicalBaseline(t) ==
    /\ t.Cflag \cap (PARENB \cup PARODD) = {}
    /\ t.Cflag \cap CSIZE = CS8
    /\ t.Cflag \cap CSTOPB = {}
    /\ t.Lflag = {}
    /\ t.Oflag = {}

\* C18: NewPort takes its steps in the canonical order and stops at the
\* first one that fails, and the baseline it commits before the setters is
\* no parity, 8 data bits, 1 stop bit, raw: when the baseline write
\* succeeded and no setter wrote after it, that is what the kernel holds.
C18_BaselineThenSettersInOrder ==
    NewPortReturned =>
        /\ StepsInOrder
        /\ (Len(OwnSteps) >= 4 /\ OwnSteps[4].err = "nil" /\ Sets(steps) = 1)
           => CanonicalBaseline(termios)

\* C18, the order alone: NewPort takes its steps in the canonical order
\* and stops at the first one that fails.
C18_StepsInOrder == NewPortReturned => StepsInOrder

\* NewPort failed at the read of SetParity, after SetBaudRate wrote
C18_StoppedAtSetParity ==
    /\ NewPortReturned
    /\ Len(OwnSteps) = 6
    /\ OwnSteps[5] = Step("SetBaudRate", "nil", 1, 1)
    /\ OwnSteps[6] = Step("SetParity", "EIO", 1, 0)


(***************************************************************************)
(* Properties of a successful setter (SpecLife).                           *)
(***************************************************************************)
\* the port with the field of setter op set to value
WithField(op, p, value) ==
    CASE op = "SetBaudRate" -> [p EXCEPT !.baudRate = value]
      [] op = "SetParity" -> [p EXCEPT !.parity = value]
      [] op = "SetDataBits" -> [p EXCEPT !.dataBits = value]
      [] op = "SetStopBits" -> [p EXCEPT !.stopBits = value]

\* the control flags that belong to the field of setter op, and the flags
\* that encode value
FlagsOf(op) ==
    CASE op = "SetParity" -> PARENB \cup PARODD
      [] op = "SetDataBits" -> CSIZE
      [] op = "SetStopBits" -> CSTOPB

FlagsFor(op, value) ==
    CASE op = "SetParity" -> ParityBits(value).bits
      [] op = "SetDataBits" -> DataBitsBits(value).bits
      [] op = "SetStopBits" -> StopBitsBits(value).bits

\* C19: a setter that succeeds changes in memory only its own field, which
\* becomes the argument; when the argument differs from the stored value
\* it reads the line configuration once and writes it once, and the kernel
\* changes only in that field's part: the two speeds for the baud rate,
\* the field's control flags for the others, every other flag and every
\* other member kept.
C19_SetterChangesOnlyItsField ==
    [][(now' = now /\ ret'.op \in Setters /\ ret'.err = "nil")
       => /\ port' = WithField(ret'.op, port, ret'.arg)
          /\ openFds' = openFds
          /\ ret'.arg # FieldOf(ret'.op, port)
             => /\ ioctls' = [gets |-> 1, sets |-> 1]
                /\ IF ret'.op = "SetBaudRate"
                   THEN termios' = [termios EXCEPT
                                      !.Ispeed = SpeedCode(ret'.arg),
                                      !.Ospeed = SpeedCode(ret'.arg)]
                   ELSE /\ termios' = [termios EXCEPT !.Cflag = termios'.Cflag]
                        /\ termios'.Cflag \ FlagsOf(ret'.op)
                             = termios.Cflag \ FlagsOf(ret'.op)
                        /\ termios'.Cflag \cap FlagsOf(ret'.op)
                             = FlagsFor(ret'.op, ret'.arg)]_vars

\* SetStopBits(StopBits2) succeeded on a port with both deadlines set and
\* parity in use
C19_StopBitsWritten ==
    /\ ret = Returned("SetStopBits", StopBits2, 0, "nil")
    /\ ioctls = [gets |-> 1, sets |-> 1]
    /\ port.stopBits = StopBits2
    /\ port.parity = ParityEven
    /\ port.readDeadline = MaxTime - 1
    /\ port.writeDeadline = MaxTime - 1
    /\ termios.Cflag \cap (CSTOPB \cup PARENB) = CSTOPB \cup PARENB


(***************************************************************************)
(* Properties of the pause in Read's loop (SpecIO).                        *)
(***************************************************************************)
\* this step is an iteration of Read's loop whose attempt obtained no byte
\* and after which the loop goes on to another attempt
ReadGotNothingAndRetries ==
    /\ call.pc = "loop"
    /\ call.op = "Read"
    /\ call'.pc = "loop"
    /\ hist'.attempts = hist.attempts + 1
    /\ hist'.okSum = hist.okSum

\* C20: an iteration of Read's loop whose attempt obtained no byte
\* (would-block or a zero-byte read) pauses before the next attempt, also
\* when earlier attempts of the call obtained bytes.
C20_EmptyAttemptPauses ==
    [][ReadGotNothingAndRetries => hist'.paused]_vars

\* C20 for the cases the code covers: the iteration pauses when the
\* attempt failed with would-block or when the call has no byte yet.
C20_PausesOnErrorOrNoProgress ==
    [][ReadGotNothingAndRetries
       => (hist'.paused <=> (hist'.lastErr = "EAGAIN" \/ call'.n = 0))]_vars


(***************************************************************************)
(* Properties of termination (SpecLive).                                   *)
(***************************************************************************)
\* a Read or Write call is inside its loop
InLoop == call.pc = "loop"

\* how the contract lets a call with a deadline end: the whole buffer and
\* no error, a genuine error, or a timeout
EndsAsContracted ==
    \/ ret.err = "nil" /\ ret.n = ret.arg
    \/ Genuine(ret.err)
    \/ ret.err = "ETIMEDOUT"

\* C21: every Read and Write call eventually returns, whatever the device
\* answers, and a call of a non-empty buffer made with its deadline set
\* (the read deadline for Read, the write deadline for Write) ends with
\* success, a genuine error or a timeout.
C21_ReturnsAndEndsAsContracted ==
    /\ InLoop ~> ~InLoop
    /\ [](IOReturned /\ ret.arg > 0 /\ ~IsZero(ContractDeadline(ret.op))
          => EndsAsContracted)

\* C21, termination alone: every Read and Write call eventually returns.
C21_EveryCallReturns == InLoop ~> ~InLoop

\* C21, for the deadline the loops test: a call of a non-empty buffer made
\* with the write deadline set ends with success, a genuine error or a
\* timeout.
C21_EndsAsContractedUnderWriteDeadline ==
    (IOReturned /\ ret.arg > 0 /\ ~IsZero(port.writeDeadline))
    => EndsAsContracted


(***************************************************************************)
(* Properties of the deadline setters (SpecLife).                          *)
(***************************************************************************)
DeadlineSetters == {"SetDeadline", "SetReadDeadline", "SetWriteDeadline"}

\* C22: a deadline setter always returns nil; SetReadDeadline(t) changes
\* only the read deadline, SetWriteDeadline(t) only the write deadline,
\* SetDeadline(t) both, each to t; the configuration fields, the path, the
\* handle, the kernel's line configuration and its open handles stay as
\* they were and no control-interface call is made; after the zero time
\* was given the deadline is unset.
C22_DeadlineSettersArePure ==
    [][(now' = now /\ ret'.op \in DeadlineSetters)
       => /\ ret'.err = "nil"
          /\ termios' = termios
          /\ openFds' = openFds
          /\ ioctls' = NoIoctls
          /\ ret'.op = "SetReadDeadline"
             => /\ port' = [port EXCEPT !.readDeadline = ret'.arg]
                /\ IsZero(ret'.arg) => IsZero(port'.readDeadline)
          /\ ret'.op = "SetWriteDeadline"
             => /\ port' = [port EXCEPT !.writeDeadline = ret'.arg]
                /\ IsZero(ret'.arg) => IsZero(port'.writeDeadline)
          /\ ret'.op = "SetDeadline"
             => /\ port' = [port EXCEPT !.readDeadline = ret'.arg,
                                        !.writeDeadline = ret'.arg]
                /\ IsZero(ret'.arg) => /\ IsZero(port'.readDeadline)
                                       /\ IsZero(port'.writeDeadline)]_vars

\* SetWriteDeadline(zero) returned on a port reconfigured to even parity:
\* the write deadline is unset and the read deadline still set
C22_WriteDeadlineCleared ==
    /\ ret = Returned("SetWriteDeadline", ZeroTime, 0, "nil")
    /\ IsZero(port.writeDeadline)
    /\ port.readDeadline = MaxTime - 1
    /\ port.parity = ParityEven
    /\ port.fd = DeviceFd


(***************************************************************************)
(* Properties of a Close concurrent with Read or Write (SpecRace).         *)
(***************************************************************************)
\* this step is a device attempt of the call in flight, made after the
\* other thread's Close released the handle during that call
AttemptAfterRelease ==
    /\ call.pc = "loop"
    /\ race.released
    /\ hist'.attempts = hist.attempts + 1

\* the attempt failed with a genuine error and the call returned it,
\* together with the bytes it had when the handle was released
FailsAndReturns ==
    /\ Genuine(hist'.lastErr)
    /\ call'.pc = "idle"
    /\ ret'.op = call.op
    /\ ret'.err = hist'.lastErr
    /\ ret'.n = race.n

\* C23: a device attempt that a Read or Write in its loop makes after a
\* Close on another thread released the handle transfers nothing: it fails
\* with a genuine error, and the call returns that error with the bytes
\* transferred before the release.
C23_NoTransferAfterRelease ==
    [][AttemptAfterRelease => FailsAndReturns]_vars

\* C23 as long as the released descriptor was not handed out again: the
\* attempt fails with EBADF and the call returns.
C23_NoTransferUnlessReused ==
    [][(AttemptAfterRelease /\ ~race.reused)
       => (FailsAndReturns /\ ret'.err = "EBADF")]_vars


=============================================================================
